---- MODULE Spec2Model ----
(***************************************************************************)
(* Kill-feed highlight pipeline: the segment scanner (Event Detector and   *)
(* Clip Exporter, find_and_extract / find_immortal_and_extract) and the    *)
(* Batch Merger in its three variants (merge_clips.py main,                *)
(* merge_pairs_and_store_all, merge_all_globally), the background music    *)
(* selection (pick_music / pick_random_music), the whole run of main and   *)
(* main_pipeline with its exit code, the Format Converter, the scan loop   *)
(* with its worker pool, and merge operations running at the same time.    *)
(*                                                                         *)
(* Time is counted in whole seconds: OCR_INTERVAL is 1.0 and every sample  *)
(* time is a multiple of it, so the float arithmetic of the source is      *)
(* exact on the values that occur.  find_immortal_and_extract takes its    *)
(* ocr_interval as a parameter; it is scanned with the same step.          *)
(***************************************************************************)
EXTENDS Integers, Sequences, FiniteSets, TLC

VARIABLES
    \* ---- scanner (find_and_extract / find_immortal_and_extract) ----
    scanVariant,      \* which function runs: "find_and_extract" | "find_immortal_and_extract"
    keywords,         \* KILL_KEYWORDS (a list) / <<KILL_KEYWORD>>
    pre_sec,          \* PRE_SEC / pre_sec
    post_sec,         \* POST_SEC / post_sec
    duration,         \* frame_count / fps
    spc,              \* position in the function
    sec,              \* current sample time
    last_found,       \* time of the last accepted event
    found_times,      \* the event list
    lastSample,       \* the sample visited last: [t, matched, seenMatch, matching, found]
                      \* (observation only)
    refEvents,        \* the reference greedy filter run on the same samples (observation only)
    extracted_files,  \* the clip list the function returns (clip numbers)
    extractCalls,     \* the extraction requests issued: [idx, event, ss, t, ok]
    \* ---- merger ----
    mergeVariant,     \* "batch" | "pairs" | "global"
    parts_clips,      \* the clip lists handed to the merger, one per part
    mpc,              \* position in the merger
    part_idx,         \* current part (1-based)
    i,                \* loop index into the current clip list (0-based, as in the source)
    temp_merges,      \* outputs appended for the current part / merged_outputs
    merged_all,       \* outputs returned
    batches,          \* the batches formed: [part, out, clips]
    concatCalls,      \* the multi-input concat invocations: [inputs, out, outcome]
    copyCalls,        \* the single-clip copies: [src, out, outcome]
    fs,               \* merged artifacts on disk: out -> sequence of source clips it holds
    \* ---- background music ----
    musicVariant,     \* "pool" (init_music_pool / pick_music) | "choice" (pick_random_music)
    numTracks,        \* number of tracks in background_musics
    clipsToConvert,   \* number of merged clips the run reformats
    MUSIC_POOL,       \* the global pool
    musicPicks,       \* the track each draw returned, in order of completion
    callerPc,         \* concurrent callers of pick_music: position of each
    mupc,             \* position in the conversion stage
    \* ---- the detector run again on the same timeline ----
    timeline,         \* the samples of the segment, one per second: [ret, text]
    firstFrame,       \* whether the first frame of the segment decodes
    run,              \* number of the current run (0: no rerun experiment)
    prevEvents,       \* the event list of the previous run
    \* ---- the whole run (main / main_pipeline and the __main__ block) ----
    pipeVariant,      \* "main" (main.py) | "yt" (yt_4k_to_shorts_pipeline.py)
    ppc,              \* position in main / main_pipeline
    parts,            \* number of part files split_video_into_parts returned
    frameOk,          \* result of the first cap.read() of the part being scanned
    scanned,          \* per scanned part: [frameOk, events, clips]
    clipsByPart,      \* parts_clips / all_extracted: the clips each part returned
    convertCalls,     \* convert_to_vertical_webm calls: [input, track, ok]
    transcodeCalls,   \* ffmpeg calls of convert_webm_to_mp4: [input, ok]
    failures,         \* the failed probe / external calls, in order
    status,           \* the final message printed
    exitCode,         \* "none" while running, then "0" or "1"
    \* ---- Format Converter (convert_videos / convert_webm_to_mp4) ----
    convVariant,      \* "convert_videos" | "convert_webm_to_mp4"
    input_folder,     \* the files of the input folder: [stem, ext]
    pending,          \* the files os.listdir has not yet handed to the loop
    commands,         \* the ffmpeg transcodes issued: [input, output, ok]
    cvpc,             \* position in the converter
    \* ---- the scan loop with its worker pool ----
    opc,              \* position inside one loop iteration
    ocrTasks,         \* futures of the executor whose result is not yet taken
    lastRead,         \* the last cap.read() of the loop: [n, t, ret] (observation only)
    \* ---- merge operations running at the same time ----
    cmVariant,        \* "merge_clips_together" (main.py) | "merge_clips" (merge_clips.py)
    cmBatch,          \* the clip list of each operation
    listFiles,        \* the concat list files on disk: path -> clip list written
    cmPc,             \* position of each operation
    concatRead        \* the clip list the concat of each operation read

scanVars == <<scanVariant, keywords, pre_sec, post_sec, duration, spc, sec, last_found,
              found_times, lastSample, refEvents, extracted_files, extractCalls>>
mergeVars == <<mergeVariant, parts_clips, mpc, part_idx, i, temp_merges, merged_all,
               batches, concatCalls, copyCalls, fs>>
musicVars == <<musicVariant, numTracks, clipsToConvert, MUSIC_POOL, musicPicks, callerPc, mupc>>
rerunVars == <<timeline, firstFrame, run, prevEvents>>
pipeVars == <<pipeVariant, ppc, parts, frameOk, scanned, clipsByPart, convertCalls,
              transcodeCalls, failures, status, exitCode>>
convVars == <<convVariant, input_folder, pending, commands, cvpc>>
ocrVars == <<opc, ocrTasks, lastRead>>
cmVars == <<cmVariant, cmBatch, listFiles, cmPc, concatRead>>
auxVars == <<convVars, ocrVars, cmVars>>
vars == <<scanVars, mergeVars, musicVars, rerunVars, pipeVars, auxVars>>
notScanVars == <<mergeVars, musicVars, rerunVars, pipeVars, auxVars>>
notMergeVars == <<scanVars, musicVars, rerunVars, pipeVars, auxVars>>
notMusicVars == <<scanVars, mergeVars, rerunVars, pipeVars, auxVars>>

(***************************************************************************)
(* Bounds of the model.                                                    *)
(***************************************************************************)
MaxDuration == 7
MaxTextLen == 2
\* Length of the segment of the design's end-to-end scenario (samples at 0..12).
ScenarioDuration == 13
MaxParts == 2
MaxClips == 8
MaxTracks == 3
MaxMusicClips == 4
MaxCallers == 3
MaxRerunDuration == 3
MaxRuns == 2
MaxSegments == 2
MaxPartDuration == 3
MaxPipeTracks == 1
MaxFiles == 3
MaxOcrDuration == 3
MaxMergers == 2
LongWindow == 50
MaxLongDuration == 3
MaxDirs == 2

(***************************************************************************)
(* Program constants.                                                      *)
(***************************************************************************)
PRE_SEC == 5
POST_SEC == 5
OCR_INTERVAL == 1
NO_EVENT_YET == -1000000000
NO_EVENT_YET_IMMORTAL == -100
GROUP_SIZE == 3
\* pick_music's `return None`
NoTrack == 0
MAX_THREADS == 2
\* MUSIC_POOL.pop() on an empty list: IndexError
PopFromEmptyList == -1

\* Window lengths tried: none, a short one, and the configured default.
Windows == {0, 2, PRE_SEC}

(***************************************************************************)
(* Text: a string is a sequence of characters.  "E" and "D" stand for the  *)
(* two words of "ENEMY DOWNED"; "e" and "d" are their lower-case forms.    *)
(***************************************************************************)
Chars == {"E", "e", "D", "d", "x"}

RECURSIVE SeqsUpTo(_)
SeqsUpTo(n) ==
    IF n = 0 THEN {<<>>}
    ELSE LET shorter == SeqsUpTo(n - 1)
         IN  shorter \cup {Append(s, c) : s \in {x \in shorter : Len(x) = n - 1}, c \in Chars}

Texts == SeqsUpTo(MaxTextLen)

\* str.lower() on one character
LowerChar(c) == CASE c = "E" -> "e" [] c = "D" -> "d" [] OTHER -> c

\* str.lower()
Lower(s) == [k \in 1..Len(s) |-> LowerChar(s[k])]

\* Python's `kw in text`: kw occurs in text as a contiguous substring
Contains(kw, text) ==
    \E k \in 0..(Len(text) - Len(kw)) : SubSeq(text, k + 1, k + Len(kw)) = kw

\* kw in text, the .lower() calls forgotten
KeywordInCaseSensitive(kw, text) == Contains(kw, text)

\* text.lower() in kw.lower(): the operands of `in` exchanged
KeywordInSwapped(kw, text) == Contains(Lower(text), Lower(kw))

\* kw.lower() in text.lower()
KeywordIn(kw, text) == Contains(Lower(kw), Lower(text))

KwED == <<"E", "D">>
KwD == <<"D">>
KwE == <<"E">>

\* KILL_KEYWORDS configurations: the shipped single keyword, and lists of two
\* keywords of which both, one or none can occur in one text.
KeywordLists == {<<KwED>>, <<KwED, KwD>>, <<KwE, KwD>>}

(***************************************************************************)
(* Event Detector.                                                         *)
(***************************************************************************)
COOLDOWN_SEC == pre_sec + post_sec

\* sec - last_found > COOLDOWN_SEC, with >= instead of >
CooldownElapsedInclusive(s, lf) == s - lf >= COOLDOWN_SEC

\* the cooldown test left out
CooldownElapsedIgnored(s, lf) == TRUE

\* sec - last_found > COOLDOWN_SEC
CooldownElapsed(s, lf) == s - lf > COOLDOWN_SEC

\* for kw in KILL_KEYWORDS: if kw.lower() in text.lower(): if sec - last_found > COOLDOWN_SEC: ...
RECURSIVE KeywordLoop(_, _, _, _, _)
KeywordLoop(k, text, s, ft, lf) ==
    IF k > Len(keywords) THEN [found_times |-> ft, last_found |-> lf]
    ELSE IF KeywordIn(keywords[k], text) /\ CooldownElapsed(s, lf)
         THEN KeywordLoop(k + 1, text, s, Append(ft, s), s)
         ELSE KeywordLoop(k + 1, text, s, ft, lf)

\* the "[FOUND] '{kw}' at ..." lines one sample prints: the positions of the keywords
\* an event was appended for, in the order of the keyword loop
RECURSIVE KeywordLog(_, _, _, _)
KeywordLog(k, text, s, lf) ==
    IF k > Len(keywords) THEN <<>>
    ELSE IF KeywordIn(keywords[k], text) /\ CooldownElapsed(s, lf)
         THEN <<k>> \o KeywordLog(k + 1, text, s, s)
         ELSE KeywordLog(k + 1, text, s, lf)

FoundLog(text, s, lf) ==
    IF scanVariant = "find_and_extract"
    THEN IF text # <<>> THEN KeywordLog(1, text, s, lf) ELSE <<>>
    ELSE IF KeywordIn(keywords[1], text) /\ CooldownElapsed(s, lf) THEN <<1>> ELSE <<>>

\* the body of the scan loop after OCR in find_and_extract: `if text:` then the keyword loop
DetectKill(text, s, ft, lf) ==
    IF text # <<>> THEN KeywordLoop(1, text, s, ft, lf)
    ELSE [found_times |-> ft, last_found |-> lf]

\* the body of the scan loop after OCR in find_immortal_and_extract: one keyword, no guard
DetectImmortal(text, s, ft, lf) ==
    IF KeywordIn(keywords[1], text) /\ CooldownElapsed(s, lf)
    THEN [found_times |-> Append(ft, s), last_found |-> s]
    ELSE [found_times |-> ft, last_found |-> lf]

Detect(text, s, ft, lf) ==
    IF scanVariant = "find_and_extract" THEN DetectKill(text, s, ft, lf)
    ELSE DetectImmortal(text, s, ft, lf)

\* Reference greedy filter of the design: a sample yields an event exactly when its
\* text contains some keyword and it lies more than the cooldown after the previously
\* emitted event (no previous event: nothing to wait for).
SameLetter(a, b) ==
    \/ a = b
    \/ {a, b} = {"E", "e"}
    \/ {a, b} = {"D", "d"}

Matches(text) ==
    \E k \in 1..Len(keywords) :
        \E off \in 0..(Len(text) - Len(keywords[k])) :
            \A j \in 1..Len(keywords[k]) : SameLetter(text[off + j], keywords[k][j])

\* the keywords (by position in the list) that occur in the text
Matching(text) ==
    {k \in 1..Len(keywords) :
        \E off \in 0..(Len(text) - Len(keywords[k])) :
            \A j \in 1..Len(keywords[k]) : SameLetter(text[off + j], keywords[k][j])}

RefStep(ev, text, s) ==
    IF Matches(text) /\ (ev = <<>> \/ s - ev[Len(ev)] > pre_sec + post_sec)
    THEN Append(ev, s) ELSE ev

\* no sample visited yet
NoSample == [t |-> -1, matched |-> FALSE, seenMatch |-> FALSE, matching |-> {}, found |-> <<>>]

\* the loop without its `sec += OCR_INTERVAL`
NextSampleTimeStuck(s) == s

\* sec += OCR_INTERVAL
NextSampleTime(s) == s + OCR_INTERVAL

(***************************************************************************)
(* Clip Exporter.                                                          *)
(***************************************************************************)
Max(a, b) == IF a >= b THEN a ELSE b

\* start = ft - PRE_SEC, without the clamp
WindowStartUnclamped(ft) == ft - pre_sec

\* start = max(0.0, ft - PRE_SEC)
WindowStart(ft) == Max(0, ft - pre_sec)

\* clip_len = PRE_SEC + POST_SEC
ClipLen == pre_sec + post_sec

\* enumerate(found_times) without start=1: numbering from 0
ClipNumberZeroBased(k) == k - 1

\* enumerate(found_times, start=1): the number of the k-th event's clip
ClipNumber(k) == k

(***************************************************************************)
(* Scanner actions.                                                        *)
(***************************************************************************)
ScanInit ==
    /\ scanVariant \in {"find_and_extract", "find_immortal_and_extract"}
    /\ keywords \in KeywordLists
    /\ scanVariant = "find_immortal_and_extract" => Len(keywords) = 1
    /\ \/ /\ pre_sec \in Windows
          /\ post_sec \in Windows
          /\ duration \in 0..MaxDuration
       \/ /\ pre_sec = PRE_SEC
          /\ post_sec = POST_SEC
          /\ duration = ScenarioDuration
    /\ spc = "open"
    /\ sec = 0
    /\ last_found = 0
    /\ found_times = <<>>
    /\ lastSample = NoSample
    /\ refEvents = <<>>
    /\ extracted_files = <<>>
    /\ extractCalls = <<>>

ScanIdle ==
    /\ scanVariant = "find_and_extract"
    /\ keywords = <<KwED>>
    /\ pre_sec = PRE_SEC
    /\ post_sec = POST_SEC
    /\ duration = 0
    /\ spc = "idle"
    /\ sec = 0
    /\ last_found = 0
    /\ found_times = <<>>
    /\ lastSample = NoSample
    /\ refEvents = <<>>
    /\ extracted_files = <<>>
    /\ extractCalls = <<>>

\* the loop variables, last_found taken from a variable that outlives the call
LoopStartKeepingLastFound == [found_times |-> <<>>, last_found |-> last_found, sec |-> 0]

\* found_times = []; last_found = -1e9 (-100 in find_immortal_and_extract); sec = 0.0
LoopStart ==
    [found_times |-> <<>>,
     last_found |-> IF scanVariant = "find_and_extract"
                    THEN NO_EVENT_YET ELSE NO_EVENT_YET_IMMORTAL,
     sec |-> 0]

\* cap.read() of the first frame (find_and_extract only); then the loop variables are set
OpenVideo(ret) ==
    /\ spc = "open"
    /\ IF scanVariant = "find_and_extract" /\ ~ret
       THEN /\ spc' = "returned"
            /\ UNCHANGED <<found_times, last_found, sec>>
       ELSE /\ spc' = "scan"
            /\ found_times' = LoopStart.found_times
            /\ last_found' = LoopStart.last_found
            /\ sec' = LoopStart.sec
    /\ UNCHANGED <<scanVariant, keywords, pre_sec, post_sec, duration,
                   lastSample, refEvents, extracted_files, extractCalls>>

\* `while sec <= duration`: the sample at the end of the segment is visited too
InSegmentInclusive(s, d) == s <= d

\* `while sec < duration`
InSegment(s, d) == s < d

\* one iteration of `while sec < duration` whose cap.read() fails
SkipSample ==
    /\ spc = "scan"
    /\ InSegment(sec, duration)
    /\ sec' = NextSampleTime(sec)
    /\ UNCHANGED <<scanVariant, keywords, pre_sec, post_sec, duration, spc, last_found,
                   found_times, lastSample, refEvents, extracted_files, extractCalls>>

\* one iteration of `while sec < duration` whose frame decodes and is recognised as text
ScanSample(text) ==
    /\ spc = "scan"
    /\ InSegment(sec, duration)
    /\ LET r == Detect(text, sec, found_times, last_found)
       IN  /\ found_times' = r.found_times
           /\ last_found' = r.last_found
    /\ lastSample' = [t |-> sec, matched |-> Matches(text),
                       seenMatch |-> lastSample.seenMatch \/ Matches(text),
                       matching |-> Matching(text),
                       found |-> FoundLog(text, sec, last_found)]
    /\ refEvents' = RefStep(refEvents, text, sec)
    /\ sec' = NextSampleTime(sec)
    /\ UNCHANGED <<scanVariant, keywords, pre_sec, post_sec, duration, spc,
                   extracted_files, extractCalls>>

\* the loop ends; cap.release()
EndScan ==
    /\ spc = "scan"
    /\ ~InSegment(sec, duration)
    /\ spc' = "export"
    /\ UNCHANGED <<scanVariant, keywords, pre_sec, post_sec, duration, sec, last_found,
                   found_times, lastSample, refEvents, extracted_files, extractCalls>>

\* one iteration of `for idx, ft in enumerate(found_times, start=1)`: the ffmpeg
\* extraction either succeeds or raises, and nothing in the function catches it
ExtractClip(ok) ==
    /\ spc = "export"
    /\ Len(extractCalls) < Len(found_times)
    /\ LET ft == found_times[Len(extractCalls) + 1]
           idx == ClipNumber(Len(extractCalls) + 1)
       IN  /\ extractCalls' = Append(extractCalls,
                                     [idx |-> idx, event |-> ft, ss |-> WindowStart(ft),
                                      t |-> ClipLen, ok |-> ok])
           /\ IF ok
              THEN /\ extracted_files' = IF scanVariant = "find_and_extract"
                                         THEN Append(extracted_files, idx)
                                         ELSE extracted_files
                   /\ spc' = spc
              ELSE /\ spc' = "raised"
                   /\ UNCHANGED extracted_files
    /\ UNCHANGED <<scanVariant, keywords, pre_sec, post_sec, duration, sec, last_found,
                   found_times, lastSample, refEvents>>

\* return extracted_files
ReturnClips ==
    /\ spc = "export"
    /\ Len(extractCalls) = Len(found_times)
    /\ spc' = "returned"
    /\ UNCHANGED <<scanVariant, keywords, pre_sec, post_sec, duration, sec, last_found,
                   found_times, lastSample, refEvents, extracted_files, extractCalls>>

\* what the caller of find_and_extract receives: the list, or nothing when it raised
ReturnedClips == IF spc = "returned" THEN extracted_files ELSE <<>>

(***************************************************************************)
(* Merger: placeholder state while the scanner runs.                       *)
(***************************************************************************)
MergeIdle ==
    /\ mergeVariant = "batch"
    /\ parts_clips = <<>>
    /\ mpc = "idle"
    /\ part_idx = 1
    /\ i = 0
    /\ temp_merges = <<>>
    /\ merged_all = <<>>
    /\ batches = <<>>
    /\ concatCalls = <<>>
    /\ copyCalls = <<>>
    /\ fs = <<>>

\* the rerun experiment is not running
RerunIdle ==
    /\ timeline = <<>>
    /\ firstFrame = TRUE
    /\ run = 0
    /\ prevEvents = <<>>

(***************************************************************************)
(* The whole run: placeholder state while one stage is examined alone.     *)
(***************************************************************************)
PipeIdle ==
    /\ pipeVariant = "main"
    /\ ppc = "idle"
    /\ parts = 0
    /\ frameOk = TRUE
    /\ scanned = <<>>
    /\ clipsByPart = <<>>
    /\ convertCalls = <<>>
    /\ transcodeCalls = <<>>
    /\ failures = <<>>
    /\ status = "none"
    /\ exitCode = "none"

(***************************************************************************)
(* Placeholder states of the Format Converter, of the worker pool of the   *)
(* scan loop and of the concurrent merge operations.                       *)
(***************************************************************************)
ConvIdle ==
    /\ convVariant = "convert_videos"
    /\ input_folder = {}
    /\ pending = {}
    /\ commands = <<>>
    /\ cvpc = "idle"

\* no frame read yet
NoRead == [n |-> 0, t |-> -1, ret |-> TRUE]

OcrIdle ==
    /\ opc = "idle"
    /\ ocrTasks = {}
    /\ lastRead = NoRead

ConcIdle ==
    /\ cmVariant = "merge_clips_together"
    /\ cmBatch = <<>>
    /\ listFiles = <<>>
    /\ cmPc = <<>>
    /\ concatRead = <<>>

AuxIdle == ConvIdle /\ OcrIdle /\ ConcIdle

(***************************************************************************)
(* Background music selection of the Vertical Reformatter.                 *)
(*                                                                         *)
(* A track is a number 1..numTracks (a file of background_musics).         *)
(* "pool": init_music_pool + pick_music of yt_4k_to_shorts_pipeline.py.    *)
(* "choice": pick_random_music of the other pipelines.                     *)
(***************************************************************************)
Tracks == 1..numTracks

\* the orders random.shuffle(files) can leave the tracks in
Shuffles == {p \in [1..numTracks -> Tracks] : \A a, b \in 1..numTracks : a # b => p[a] # p[b]}

\* MUSIC_POOL[-1] read without removing it
PoolAfterPeek(pool) == pool

\* the list after MUSIC_POOL.pop()
PoolAfterPop(pool) == SubSeq(pool, 1, Len(pool) - 1)

\* pick_music(): None for an empty pool, else the last track, removed from the pool
PickMusic(pool) ==
    IF pool = <<>> THEN [track |-> NoTrack, pool |-> pool]
    ELSE [track |-> pool[Len(pool)], pool |-> PoolAfterPop(pool)]

\* pick_random_music(): None without files, else random.choice(music_files)
PickRandomMusic == IF numTracks = 0 THEN {NoTrack} ELSE Tracks

MusicInit ==
    /\ musicVariant \in {"pool", "choice"}
    /\ numTracks \in 0..MaxTracks
    /\ clipsToConvert \in 0..MaxMusicClips
    /\ MUSIC_POOL = <<>>
    /\ musicPicks = <<>>
    /\ callerPc = <<>>
    /\ mupc = "init"

MusicIdle ==
    /\ musicVariant = "pool"
    /\ numTracks = 0
    /\ clipsToConvert = 0
    /\ MUSIC_POOL = <<>>
    /\ musicPicks = <<>>
    /\ callerPc = <<>>
    /\ mupc = "idle"

\* init_music_pool(background_music_dir): the pool is the shuffled track list (it stays
\* empty when the directory is missing or holds no track); the other pipelines keep no pool
InitMusicPool ==
    /\ mupc = "init"
    /\ MUSIC_POOL' \in (IF musicVariant = "pool" THEN Shuffles ELSE {<<>>})
    /\ mupc' = "convert"
    /\ UNCHANGED <<musicVariant, numTracks, clipsToConvert, musicPicks, callerPc>>

\* one iteration of `for file in merged_outputs: convert_to_vertical_webm(...)`, which
\* draws the clip's track first
ConvertClip ==
    /\ mupc = "convert"
    /\ Len(musicPicks) < clipsToConvert
    /\ IF musicVariant = "pool"
       THEN /\ musicPicks' = Append(musicPicks, PickMusic(MUSIC_POOL).track)
            /\ MUSIC_POOL' = PickMusic(MUSIC_POOL).pool
       ELSE /\ \E t \in PickRandomMusic : musicPicks' = Append(musicPicks, t)
            /\ UNCHANGED MUSIC_POOL
    /\ UNCHANGED <<musicVariant, numTracks, clipsToConvert, callerPc, mupc>>

\* the conversion loop ends
EndConvert ==
    /\ mupc = "convert"
    /\ Len(musicPicks) = clipsToConvert
    /\ mupc' = "done"
    /\ UNCHANGED <<musicVariant, numTracks, clipsToConvert, MUSIC_POOL, musicPicks, callerPc>>

NextMusic ==
    \/ InitMusicPool /\ UNCHANGED notMusicVars
    \/ ConvertClip /\ UNCHANGED notMusicVars
    \/ EndConvert /\ UNCHANGED notMusicVars

InitMusic == ScanIdle /\ MergeIdle /\ MusicInit /\ RerunIdle /\ PipeIdle /\ AuxIdle

SpecMusic == InitMusic /\ [][NextMusic]_vars

(***************************************************************************)
(* pick_music drawn by several reformat operations at once.  The function  *)
(* holds no lock: between its test `if not MUSIC_POOL` and its             *)
(* `MUSIC_POOL.pop()` another caller can run.  list.pop() itself is one    *)
(* indivisible step and raises IndexError on an empty list.                *)
(***************************************************************************)
Callers == 1..MaxCallers

MusicConcInit ==
    /\ musicVariant = "pool"
    /\ numTracks \in 0..MaxTracks
    /\ clipsToConvert = MaxCallers
    /\ MUSIC_POOL \in Shuffles
    /\ musicPicks = <<>>
    /\ callerPc = [c \in Callers |-> "call"]
    /\ mupc = "concurrent"

\* `if not MUSIC_POOL: return None`
CheckPool(c) ==
    /\ mupc = "concurrent"
    /\ callerPc[c] = "call"
    /\ IF MUSIC_POOL = <<>>
       THEN /\ musicPicks' = Append(musicPicks, NoTrack)
            /\ callerPc' = [callerPc EXCEPT ![c] = "returned"]
       ELSE /\ callerPc' = [callerPc EXCEPT ![c] = "pop"]
            /\ UNCHANGED musicPicks
    /\ UNCHANGED <<musicVariant, numTracks, clipsToConvert, MUSIC_POOL, mupc>>

\* `return MUSIC_POOL.pop()`
PopPool(c) ==
    /\ mupc = "concurrent"
    /\ callerPc[c] = "pop"
    /\ IF MUSIC_POOL = <<>>
       THEN /\ musicPicks' = Append(musicPicks, PopFromEmptyList)
            /\ callerPc' = [callerPc EXCEPT ![c] = "raised"]
            /\ UNCHANGED MUSIC_POOL
       ELSE /\ musicPicks' = Append(musicPicks, PickMusic(MUSIC_POOL).track)
            /\ MUSIC_POOL' = PickMusic(MUSIC_POOL).pool
            /\ callerPc' = [callerPc EXCEPT ![c] = "returned"]
    /\ UNCHANGED <<musicVariant, numTracks, clipsToConvert, mupc>>

NextMusicConc ==
    \/ \E c \in Callers : CheckPool(c) /\ UNCHANGED notMusicVars
    \/ \E c \in Callers : PopPool(c) /\ UNCHANGED notMusicVars

InitMusicConc == ScanIdle /\ MergeIdle /\ MusicConcInit /\ RerunIdle /\ PipeIdle /\ AuxIdle

SpecMusicConc == InitMusicConc /\ [][NextMusicConc]_vars

(***************************************************************************)
(* The detector run again: the same segment (first frame, samples) is      *)
(* scanned MaxRuns times with the same keywords and cooldown.  Every call  *)
(* of the function starts at its first statement; whatever the previous    *)
(* call left in the loop variables is still there until the call assigns   *)
(* them.                                                                   *)
(***************************************************************************)
RerunTexts == {<<>>, <<"x">>, <<"d">>, <<"e", "D">>}

Samples == {[ret |-> FALSE, text |-> <<>>]} \cup {[ret |-> TRUE, text |-> t] : t \in RerunTexts}

RerunInit ==
    /\ scanVariant \in {"find_and_extract", "find_immortal_and_extract"}
    /\ keywords \in KeywordLists
    /\ scanVariant = "find_immortal_and_extract" => Len(keywords) = 1
    /\ pre_sec = 0
    /\ post_sec \in {0, 2}
    /\ duration \in 0..MaxRerunDuration
    /\ spc = "open"
    /\ sec = 0
    /\ last_found = 0
    /\ found_times = <<>>
    /\ lastSample = NoSample
    /\ refEvents = <<>>
    /\ extracted_files = <<>>
    /\ extractCalls = <<>>
    /\ timeline \in [1..duration -> Samples]
    /\ firstFrame \in BOOLEAN
    /\ run = 1
    /\ prevEvents = <<>>

\* the sample the loop reads at time s
SampleAt(s) == timeline[(s \div OCR_INTERVAL) + 1]

\* the detector has finished: the loop ended, or the first frame did not decode
DetectorDone == spc \in {"export", "returned"}

\* find_and_extract is called once more on the same file
RunAgain ==
    /\ DetectorDone
    /\ run < MaxRuns
    /\ run' = run + 1
    /\ prevEvents' = found_times
    /\ spc' = "open"
    /\ lastSample' = NoSample
    /\ refEvents' = <<>>
    /\ UNCHANGED <<scanVariant, keywords, pre_sec, post_sec, duration, sec, last_found,
                   found_times, extracted_files, extractCalls, timeline, firstFrame>>
    /\ UNCHANGED <<mergeVars, musicVars, pipeVars, auxVars>>

NextRerun ==
    \/ OpenVideo(firstFrame) /\ UNCHANGED notScanVars
    \/ spc = "scan" /\ sec < duration /\ ~SampleAt(sec).ret /\ SkipSample
          /\ UNCHANGED notScanVars
    \/ spc = "scan" /\ sec < duration /\ SampleAt(sec).ret /\ ScanSample(SampleAt(sec).text)
          /\ UNCHANGED notScanVars
    \/ EndScan /\ UNCHANGED notScanVars
    \/ RunAgain

InitRerun == RerunInit /\ MergeIdle /\ MusicIdle /\ PipeIdle /\ AuxIdle

SpecRerun == InitRerun /\ [][NextRerun]_vars

(***************************************************************************)
(* Format Converter: convert_videos (convert_to_reels.py) and              *)
(* convert_webm_to_mp4 (shorts_reels_pipeline.py).  A file name is a stem  *)
(* and an extension; os.listdir hands the files over in no fixed order.    *)
(***************************************************************************)
Stems == {"a", "b"}
Exts == {"webm", "WEBM", "mov", "txt"}
Files == [stem : Stems, ext : Exts]

\* str.lower() on an extension
LowerExt(e) == IF e = "WEBM" THEN "webm" ELSE e

\* the extensions each converter takes
AcceptedExts ==
    IF convVariant = "convert_videos"
    THEN {"mp4", "mov", "mkv", "avi", "webm", "flv"}
    ELSE {"webm"}

\* file.lower().endswith(...)
Accepted(file) == LowerExt(file.ext) \in AcceptedExts

\* os.path.join(output_folder, os.path.splitext(file)[0] + ".mp4")
OutputPath(file) == [stem |-> file.stem, ext |-> "mp4"]

ConvInit ==
    /\ convVariant \in {"convert_videos", "convert_webm_to_mp4"}
    /\ input_folder \in {S \in SUBSET Files : Cardinality(S) <= MaxFiles}
    /\ pending = input_folder
    /\ commands = <<>>
    /\ cvpc = "loop"

\* one iteration of `for file in os.listdir(input_folder)`: a file that is not
\* accepted is passed over, an accepted one is transcoded with check=True
ConvertNext(file, ok) ==
    /\ cvpc = "loop"
    /\ file \in pending
    /\ pending' = pending \ {file}
    /\ IF Accepted(file)
       THEN /\ commands' = Append(commands, [input |-> file, output |-> OutputPath(file),
                                             ok |-> ok])
            /\ cvpc' = IF ok THEN "loop" ELSE "raised"
       ELSE UNCHANGED <<commands, cvpc>>
    /\ UNCHANGED <<convVariant, input_folder>>

\* the loop is over: "Conversion complete"
ConvertDone ==
    /\ cvpc = "loop"
    /\ pending = {}
    /\ cvpc' = "done"
    /\ UNCHANGED <<convVariant, input_folder, pending, commands>>

notConvVars == <<scanVars, mergeVars, musicVars, rerunVars, pipeVars, ocrVars, cmVars>>

NextConv ==
    \/ \E file \in Files, ok \in BOOLEAN : ConvertNext(file, ok) /\ UNCHANGED notConvVars
    \/ ConvertDone /\ UNCHANGED notConvVars

InitConv ==
    ScanIdle /\ MergeIdle /\ MusicIdle /\ RerunIdle /\ PipeIdle /\ ConvInit /\ OcrIdle /\ ConcIdle

SpecConv == InitConv /\ [][NextConv]_vars

(***************************************************************************)
(* The scan loop of find_and_extract with its ThreadPoolExecutor: one      *)
(* iteration is the frame read, the submit of ocr_frame, the worker        *)
(* running it, and .result() handing the text to the keyword loop.         *)
(***************************************************************************)
OcrInit ==
    /\ scanVariant = "find_and_extract"
    /\ keywords \in KeywordLists
    /\ pre_sec = 0
    /\ post_sec \in {0, 2}
    /\ duration \in 0..MaxOcrDuration
    /\ spc = "open"
    /\ sec = 0
    /\ last_found = 0
    /\ found_times = <<>>
    /\ lastSample = NoSample
    /\ refEvents = <<>>
    /\ extracted_files = <<>>
    /\ extractCalls = <<>>
    /\ opc = "read"
    /\ ocrTasks = {}
    /\ lastRead = NoRead

\* every frame is handed on, decoded or not
FrameUsableAlways(ret) == TRUE

\* `if not ret:` sec += OCR_INTERVAL; continue
FrameUsable(ret) == ret

\* after the submit the loop reads the next frame without taking the result
AfterSubmitNoWait == "read"

\* executor.submit(ocr_frame, region).result(): the loop blocks on the future
AfterSubmit == "wait"

\* cap.set(...); ret, frame = cap.read()
ReadFrame(ret) ==
    /\ spc = "scan"
    /\ opc = "read"
    /\ sec < duration
    /\ lastRead' = [n |-> lastRead.n + 1, t |-> sec, ret |-> ret]
    /\ IF FrameUsable(ret)
       THEN /\ opc' = "submit"
            /\ UNCHANGED scanVars
       ELSE /\ SkipSample
            /\ UNCHANGED opc
    /\ UNCHANGED ocrTasks

\* executor.submit(ocr_frame, region)
SubmitOcr ==
    /\ opc = "submit"
    /\ ocrTasks' = ocrTasks \cup {[t |-> sec, state |-> "queued", text |-> <<>>]}
    /\ opc' = AfterSubmit
    /\ UNCHANGED <<scanVars, lastRead>>

\* a free worker of the pool takes a queued task
WorkerStarts(task) ==
    /\ task \in ocrTasks
    /\ task.state = "queued"
    /\ Cardinality({w \in ocrTasks : w.state = "running"}) < MAX_THREADS
    /\ ocrTasks' = (ocrTasks \ {task}) \cup {[task EXCEPT !.state = "running"]}
    /\ UNCHANGED <<scanVars, opc, lastRead>>

\* ocr_frame returns the recognised text
WorkerFinishes(task, text) ==
    /\ task \in ocrTasks
    /\ task.state = "running"
    /\ ocrTasks' = (ocrTasks \ {task}) \cup {[task EXCEPT !.state = "done", !.text = text]}
    /\ UNCHANGED <<scanVars, opc, lastRead>>

\* .result() returns: the keyword loop runs on the text and sec += OCR_INTERVAL
TakeResult ==
    /\ opc = "wait"
    /\ \E task \in ocrTasks :
         /\ task.t = sec
         /\ task.state = "done"
         /\ ScanSample(task.text)
         /\ ocrTasks' = ocrTasks \ {task}
    /\ opc' = "read"
    /\ UNCHANGED lastRead

notOcrVars == <<mergeVars, musicVars, rerunVars, pipeVars, convVars, cmVars>>

NextOcr ==
    \/ \E ret \in BOOLEAN : OpenVideo(ret) /\ UNCHANGED notScanVars
    \/ \E ret \in BOOLEAN : ReadFrame(ret) /\ UNCHANGED notOcrVars
    \/ SubmitOcr /\ UNCHANGED notOcrVars
    \/ \E task \in ocrTasks : WorkerStarts(task) /\ UNCHANGED notOcrVars
    \/ \E task \in ocrTasks, text \in RerunTexts :
          WorkerFinishes(task, text) /\ UNCHANGED notOcrVars
    \/ TakeResult /\ UNCHANGED notOcrVars
    \/ opc = "read" /\ EndScan /\ UNCHANGED notScanVars

InitOcr ==
    OcrInit /\ MergeIdle /\ MusicIdle /\ RerunIdle /\ PipeIdle /\ ConvIdle /\ ConcIdle

SpecOcr == InitOcr /\ [][NextOcr]_vars

NextScan ==
    \/ \E ret \in BOOLEAN : OpenVideo(ret) /\ UNCHANGED notScanVars
    \/ SkipSample /\ UNCHANGED notScanVars
    \/ \E text \in Texts : ScanSample(text) /\ UNCHANGED notScanVars
    \/ EndScan /\ UNCHANGED notScanVars
    \/ \E ok \in BOOLEAN : ExtractClip(ok) /\ UNCHANGED notScanVars
    \/ ReturnClips /\ UNCHANGED notScanVars

(***************************************************************************)
(* The scan of one segment with long windows: pre_sec and post_sec are     *)
(* parameters of find_immortal_and_extract and module settings of          *)
(* find_and_extract, and nothing bounds them from above.                   *)
(***************************************************************************)
LongScanInit ==
    /\ scanVariant \in {"find_and_extract", "find_immortal_and_extract"}
    /\ keywords = <<KwED>>
    /\ pre_sec \in {0, LongWindow}
    /\ post_sec = pre_sec
    /\ duration \in 0..MaxLongDuration
    /\ spc = "open"
    /\ sec = 0
    /\ last_found = 0
    /\ found_times = <<>>
    /\ lastSample = NoSample
    /\ refEvents = <<>>
    /\ extracted_files = <<>>
    /\ extractCalls = <<>>

InitLongScan == LongScanInit /\ MergeIdle /\ MusicIdle /\ RerunIdle /\ PipeIdle /\ AuxIdle

SpecLongScan == InitLongScan /\ [][NextScan]_vars

\* the function runs on: a step that can be taken is taken
SpecScanFair == InitLongScan /\ [][NextScan]_vars /\ WF_vars(NextScan)

InitScan == ScanInit /\ MergeIdle /\ MusicIdle /\ RerunIdle /\ PipeIdle /\ AuxIdle

SpecScan == InitScan /\ [][NextScan]_vars

(***************************************************************************)
(* Batch Merger.                                                           *)
(*                                                                         *)
(* A path is a record: a source clip [kind "clip", part, n], a merged      *)
(* output [kind "merged", part, n] (merged_<part>_<n>.webm,                *)
(* merged_batch_<n>.webm, merged_shorts_<n>.webm) or the single copy       *)
(* [kind "single", part, 0] (merged_<part>_single.webm).  The content of   *)
(* an artifact is the sequence of source clips it holds.                   *)
(***************************************************************************)
Clip(p, k) == [kind |-> "clip", part |-> p, n |-> k]
MergedOut(p, k) == [kind |-> "merged", part |-> p, n |-> k]
SingleOut(p) == [kind |-> "single", part |-> p, n |-> 0]

Content(f, path) ==
    IF path.kind = "clip" THEN <<path>>
    ELSE IF path \in DOMAIN f THEN f[path] ELSE <<>>

RECURSIVE ContentOfAll(_, _)
ContentOfAll(f, paths) ==
    IF paths = <<>> THEN <<>>
    ELSE Content(f, Head(paths)) \o ContentOfAll(f, Tail(paths))

RECURSIVE Without(_, _)
Without(paths, x) ==
    IF paths = <<>> THEN <<>>
    ELSE IF Head(paths) = x THEN Without(Tail(paths), x)
         ELSE <<Head(paths)>> \o Without(Tail(paths), x)

InSeq(x, sq) == \E k \in 1..Len(sq) : sq[k] = x

\* What one `ffmpeg -f concat ... -c copy -y out` can do.  It exits non-zero ("fail")
\* or zero; when out is itself one of the listed inputs, ffmpeg truncates it on opening
\* the output while the concat demuxer still reads it, so a zero exit leaves either the
\* intended content ("ok") or only what the other inputs held ("clobbered").
Outcomes(inputs, out) ==
    {"ok", "fail"} \cup (IF InSeq(out, inputs) THEN {"clobbered"} ELSE {})

AfterConcat(f, inputs, out, outcome) ==
    CASE outcome = "ok" -> (out :> ContentOfAll(f, inputs)) @@ f
      [] outcome = "clobbered" -> (out :> ContentOfAll(f, Without(inputs, out))) @@ f
      [] OTHER -> f

\* the effect of one merge request on the call logs and the disk; raised: an exception
\* leaves the function
MergeEffect(cc, cp, f, raised) ==
    [concatCalls |-> cc, copyCalls |-> cp, fs |-> f, raised |-> raised]

\* the ffmpeg concat part shared by the three merge functions (check=True / .run())
ConcatRequest(clip_files, out, outcome) ==
    MergeEffect(Append(concatCalls,
                       [inputs |-> clip_files, out |-> out, outcome |-> outcome]),
                copyCalls,
                AfterConcat(fs, clip_files, out, outcome),
                outcome = "fail")

\* `if len(clip_files) < 3`: pairs are skipped too
TooFewToMergeOffByOne(n) == n < 3

\* `if len(clip_files) < 2` of merge_clips_together (main.py)
TooFewToMerge(n) == n < 2

\* merge_clips_together of main.py: fewer than 2 clips are skipped, nothing is written
MergeClipsTogetherPairs(clip_files, out, outcome) ==
    IF TooFewToMerge(Len(clip_files))
    THEN MergeEffect(concatCalls, copyCalls, fs, FALSE)
    ELSE ConcatRequest(clip_files, out, outcome)

\* merge_clips_together of yt_4k_to_shorts_pipeline.py: nothing for an empty list, a
\* copy for one clip (a failed copy is caught and only printed), concat otherwise
MergeClipsTogetherGlobal(clip_files, out, outcome) ==
    IF clip_files = <<>>
    THEN MergeEffect(concatCalls, copyCalls, fs, FALSE)
    ELSE IF Len(clip_files) = 1
         THEN MergeEffect(concatCalls,
                          Append(copyCalls,
                                 [src |-> clip_files[1], out |-> out, outcome |-> outcome]),
                          IF outcome = "fail" THEN fs
                          ELSE (out :> Content(fs, clip_files[1])) @@ fs,
                          FALSE)
         ELSE ConcatRequest(clip_files, out, outcome)

\* merge_clips of merge_clips.py: always the concat, whatever the number of clips
MergeClipsBatch(clip_paths, out, outcome) == ConcatRequest(clip_paths, out, outcome)

MergeFunction(clip_files, out, outcome) ==
    CASE mergeVariant = "pairs" -> MergeClipsTogetherPairs(clip_files, out, outcome)
      [] mergeVariant = "global" -> MergeClipsTogetherGlobal(clip_files, out, outcome)
      [] OTHER -> MergeClipsBatch(clip_files, out, outcome)

RECURSIVE FlattenParts(_)
FlattenParts(pc) ==
    IF pc = <<>> THEN <<>> ELSE Head(pc) \o FlattenParts(Tail(pc))

\* the list the running loop walks: the current part's clip_list (pairs), all_clips
\* (global: the clips of all parts in one list), clip_paths (batch)
ClipList ==
    CASE mergeVariant = "pairs" -> parts_clips[part_idx]
      [] mergeVariant = "global" -> FlattenParts(parts_clips)
      [] OTHER -> parts_clips[1]

\* all_clips[idx:idx+k] with a 0-based idx: at most k clips, fewer at the end of the list
Slice(list, idx, k) ==
    SubSeq(list, idx + 1, IF idx + k <= Len(list) THEN idx + k ELSE Len(list))

\* `if i + 2 == len(clip_paths)`: the test for the closing batch of three, off by one
IsLastThreeOffByOne(idx, n) == idx + 2 = n

\* `if i + 3 == len(clip_paths)` of merge_clips.py main
IsLastThree(idx, n) == idx + 3 = n

MergeInit ==
    /\ mergeVariant \in {"batch", "pairs", "global"}
    /\ \E np \in 1..MaxParts :
         /\ mergeVariant = "batch" => np = 1
         /\ \E sizes \in [1..np -> 0..MaxClips] :
              parts_clips = [p \in 1..np |-> [k \in 1..sizes[p] |-> Clip(p, k)]]
    /\ mpc = "start"
    /\ part_idx = 1
    /\ i = 0
    /\ temp_merges = <<>>
    /\ merged_all = <<>>
    /\ batches = <<>>
    /\ concatCalls = <<>>
    /\ copyCalls = <<>>
    /\ fs = <<>>

\* entry: the single loop of merge_clips.py main / merge_all_globally starts at once;
\* merge_pairs_and_store_all first picks a part
StartMerge ==
    /\ mpc = "start"
    /\ mpc' = IF mergeVariant = "pairs" THEN "part" ELSE "loop"
    /\ UNCHANGED <<mergeVariant, parts_clips, part_idx, i, temp_merges, merged_all,
                   batches, concatCalls, copyCalls, fs>>

\* for part_idx, clip_list in enumerate(parts_clips, start=1): empty lists are skipped
NextPart ==
    /\ mpc = "part"
    /\ IF part_idx > Len(parts_clips)
       THEN /\ mpc' = "done"
            /\ UNCHANGED <<part_idx, i, temp_merges>>
       ELSE IF parts_clips[part_idx] = <<>>
            THEN /\ part_idx' = part_idx + 1
                 /\ UNCHANGED <<mpc, i, temp_merges>>
            ELSE /\ mpc' = "loop"
                 /\ i' = 0
                 /\ temp_merges' = <<>>
                 /\ UNCHANGED part_idx
    /\ UNCHANGED <<mergeVariant, parts_clips, merged_all, batches, concatCalls,
                   copyCalls, fs>>

\* the common tail of a loop iteration: apply the merge request, raise if it raised
ApplyMerge(e) ==
    /\ concatCalls' = e.concatCalls
    /\ copyCalls' = e.copyCalls
    /\ fs' = e.fs
    /\ mpc' = IF e.raised THEN "raised" ELSE mpc

\* merge_pairs_and_store_all, `if i + 1 < len(clip_list)`: merge clips i and i+1
MergePair(outcome) ==
    /\ mpc = "loop"
    /\ mergeVariant = "pairs"
    /\ i + 1 < Len(ClipList)
    /\ LET merged_out == MergedOut(part_idx, (i \div 2) + 1)
           pair == <<ClipList[i + 1], ClipList[i + 2]>>
       IN  /\ outcome \in Outcomes(pair, merged_out)
           /\ ApplyMerge(MergeFunction(pair, merged_out, outcome))
           /\ batches' = Append(batches,
                                [part |-> part_idx, out |-> merged_out, clips |-> pair])
           /\ temp_merges' = IF outcome = "fail" THEN temp_merges
                             ELSE Append(temp_merges, merged_out)
           /\ i' = IF outcome = "fail" THEN i ELSE i + 2
    /\ UNCHANGED <<mergeVariant, parts_clips, part_idx, merged_all>>

\* merge_pairs_and_store_all, odd clip remaining and a batch already merged: the last
\* merged output and the leftover are merged into that same output
MergeOdd(outcome) ==
    /\ mpc = "loop"
    /\ mergeVariant = "pairs"
    /\ i < Len(ClipList)
    /\ ~(i + 1 < Len(ClipList))
    /\ temp_merges # <<>>
    /\ LET last == temp_merges[Len(temp_merges)]
           leftover == ClipList[i + 1]
           inputs == <<last, leftover>>
       IN  /\ outcome \in Outcomes(inputs, last)
           /\ ApplyMerge(MergeFunction(inputs, last, outcome))
           /\ batches' = [batches EXCEPT ![Len(batches)].clips = Append(@, leftover)]
           /\ i' = IF outcome = "fail" THEN i ELSE i + 1
    /\ UNCHANGED <<mergeVariant, parts_clips, part_idx, temp_merges, merged_all>>

\* merge_pairs_and_store_all, only one clip in the part: the "single copy" request
MergeSingle(outcome) ==
    /\ mpc = "loop"
    /\ mergeVariant = "pairs"
    /\ i < Len(ClipList)
    /\ ~(i + 1 < Len(ClipList))
    /\ temp_merges = <<>>
    /\ LET single_copy == SingleOut(part_idx)
           one == <<ClipList[i + 1]>>
       IN  /\ outcome \in Outcomes(one, single_copy)
           /\ ApplyMerge(MergeFunction(one, single_copy, outcome))
           /\ batches' = Append(batches,
                                [part |-> part_idx, out |-> single_copy, clips |-> one])
           /\ i' = IF MergeFunction(one, single_copy, outcome).raised THEN i ELSE i + 1
    /\ UNCHANGED <<mergeVariant, parts_clips, part_idx, temp_merges, merged_all>>

\* merge_pairs_and_store_all, the while loop of a part ends: merged_all.extend(temp_merges)
EndPart ==
    /\ mpc = "loop"
    /\ mergeVariant = "pairs"
    /\ ~(i < Len(ClipList))
    /\ merged_all' = merged_all \o temp_merges
    /\ part_idx' = part_idx + 1
    /\ mpc' = "part"
    /\ UNCHANGED <<mergeVariant, parts_clips, i, temp_merges, batches, concatCalls,
                   copyCalls, fs>>

\* merge_clips.py main, one iteration: three clips when exactly three remain, else two
MergeBatch(outcome) ==
    /\ mpc = "loop"
    /\ mergeVariant = "batch"
    /\ i < Len(ClipList)
    /\ LET k == IF IsLastThree(i, Len(ClipList)) THEN 3 ELSE 2
           batch == Slice(ClipList, i, k)
           out_path == MergedOut(1, Len(temp_merges) + 1)
       IN  /\ outcome \in Outcomes(batch, out_path)
           /\ ApplyMerge(MergeFunction(batch, out_path, outcome))
           /\ batches' = Append(batches, [part |-> 1, out |-> out_path, clips |-> batch])
           /\ temp_merges' = IF outcome = "fail" THEN temp_merges
                             ELSE Append(temp_merges, out_path)
           /\ i' = IF outcome = "fail" THEN i ELSE i + k
    /\ UNCHANGED <<mergeVariant, parts_clips, part_idx, merged_all>>

\* merge_all_globally, one iteration: group = all_clips[idx:idx+3]
MergeGroup(outcome) ==
    /\ mpc = "loop"
    /\ mergeVariant = "global"
    /\ i < Len(ClipList)
    /\ LET group == Slice(ClipList, i, GROUP_SIZE)
           merged_out == MergedOut(1, Len(temp_merges) + 1)
           e == MergeFunction(group, merged_out, outcome)
       IN  /\ outcome \in Outcomes(group, merged_out)
           /\ ApplyMerge(e)
           /\ batches' = Append(batches, [part |-> 1, out |-> merged_out, clips |-> group])
           /\ temp_merges' = IF e.raised THEN temp_merges
                             ELSE Append(temp_merges, merged_out)
           /\ i' = IF e.raised THEN i ELSE i + GROUP_SIZE
    /\ UNCHANGED <<mergeVariant, parts_clips, part_idx, merged_all>>

\* the single loop of merge_clips.py main / merge_all_globally ends
EndLoop ==
    /\ mpc = "loop"
    /\ mergeVariant \in {"batch", "global"}
    /\ ~(i < Len(ClipList))
    /\ merged_all' = temp_merges
    /\ mpc' = "done"
    /\ UNCHANGED <<mergeVariant, parts_clips, part_idx, i, temp_merges, batches,
                   concatCalls, copyCalls, fs>>

NextMerge ==
    \/ StartMerge /\ UNCHANGED notMergeVars
    \/ NextPart /\ UNCHANGED notMergeVars
    \/ \E o \in {"ok", "fail"} : MergePair(o) /\ UNCHANGED notMergeVars
    \/ \E o \in {"ok", "fail", "clobbered"} : MergeOdd(o) /\ UNCHANGED notMergeVars
    \/ \E o \in {"ok", "fail"} : MergeSingle(o) /\ UNCHANGED notMergeVars
    \/ EndPart /\ UNCHANGED notMergeVars
    \/ \E o \in {"ok", "fail"} : MergeBatch(o) /\ UNCHANGED notMergeVars
    \/ \E o \in {"ok", "fail"} : MergeGroup(o) /\ UNCHANGED notMergeVars
    \/ EndLoop /\ UNCHANGED notMergeVars

InitMerge == ScanIdle /\ MergeInit /\ MusicIdle /\ RerunIdle /\ PipeIdle /\ AuxIdle

SpecMerge == InitMerge /\ [][NextMerge]_vars

(***************************************************************************)
(* Merge operations for different batches running at the same time.  Each  *)
(* writes its concat list file, runs ffmpeg on it and removes it.          *)
(* merge_clips_together (main.py) names the list merge_list.txt in the     *)
(* directory of the output; merge_clips (merge_clips.py) names it          *)
(* <output_path>_list.txt.  The output of operation op is out<op> in the   *)
(* directory of its batch.                                                 *)
(***************************************************************************)
Mergers == 1..MaxMergers
Dirs == 1..MaxDirs

\* the list file of an operation: name 0 is merge_list.txt, name op is out<op>_list.txt
ListPath(op) ==
    [dir |-> cmBatch[op].dir,
     name |-> IF cmVariant = "merge_clips_together" THEN 0 ELSE op]

ListPaths == [dir : Dirs, name : 0..MaxMergers]

\* no such file
Absent == <<>>

ConcInit ==
    /\ cmVariant \in {"merge_clips_together", "merge_clips"}
    /\ \E d \in [Mergers -> Dirs] :
         cmBatch = [op \in Mergers |-> [dir |-> d[op], clips |-> <<Clip(op, 1), Clip(op, 2)>>]]
    /\ listFiles = [path \in ListPaths |-> Absent]
    /\ cmPc = [op \in Mergers |-> "write"]
    /\ concatRead = [op \in Mergers |-> <<>>]

\* with open(list_file, "w") as f: one line per clip
WriteList(op) ==
    /\ cmPc[op] = "write"
    /\ listFiles' = [listFiles EXCEPT ![ListPath(op)] = cmBatch[op].clips]
    /\ cmPc' = [cmPc EXCEPT ![op] = "concat"]
    /\ UNCHANGED <<cmVariant, cmBatch, concatRead>>

\* the ffmpeg concat reads the list file as it is now; it fails when the file is gone
\* and can fail for reasons of its own (check=True / .run() raise)
RunConcat(op, ok) ==
    /\ cmPc[op] = "concat"
    /\ IF listFiles[ListPath(op)] = Absent
       THEN /\ cmPc' = [cmPc EXCEPT ![op] = "raised: no list file"]
            /\ UNCHANGED concatRead
       ELSE IF ok
            THEN /\ concatRead' = [concatRead EXCEPT ![op] = listFiles[ListPath(op)]]
                 /\ cmPc' = [cmPc EXCEPT ![op] = "remove"]
            ELSE /\ cmPc' = [cmPc EXCEPT ![op] = "raised: ffmpeg"]
                 /\ UNCHANGED concatRead
    /\ UNCHANGED <<cmVariant, cmBatch, listFiles>>

\* os.remove(list_file): FileNotFoundError when the file is gone
RemoveList(op) ==
    /\ cmPc[op] = "remove"
    /\ IF listFiles[ListPath(op)] = Absent
       THEN /\ cmPc' = [cmPc EXCEPT ![op] = "raised: no list file"]
            /\ UNCHANGED listFiles
       ELSE /\ listFiles' = [listFiles EXCEPT ![ListPath(op)] = Absent]
            /\ cmPc' = [cmPc EXCEPT ![op] = "done"]
    /\ UNCHANGED <<cmVariant, cmBatch, concatRead>>

notCmVars == <<scanVars, mergeVars, musicVars, rerunVars, pipeVars, convVars, ocrVars>>

NextConc ==
    \/ \E op \in Mergers : WriteList(op) /\ UNCHANGED notCmVars
    \/ \E op \in Mergers, ok \in BOOLEAN : RunConcat(op, ok) /\ UNCHANGED notCmVars
    \/ \E op \in Mergers : RemoveList(op) /\ UNCHANGED notCmVars

InitConc ==
    ScanIdle /\ MergeIdle /\ MusicIdle /\ RerunIdle /\ PipeIdle /\ ConvIdle /\ OcrIdle /\ ConcInit

SpecConc == InitConc /\ [][NextConc]_vars

(***************************************************************************)
(* The whole run: main of main.py ("main": split, scan every part, merge   *)
(* per part) and main_pipeline of yt_4k_to_shorts_pipeline.py ("yt":       *)
(* split, scan, merge globally, reformat with music, transcode), each      *)
(* under its __main__ block, which turns a return into exit code 0 and     *)
(* any exception into "[FATAL ERROR]" and exit code 1.  The scanner and    *)
(* the merger are the ones modelled above, run as the calls of the         *)
(* pipeline.  Segments are short and the windows are 0 so that a segment   *)
(* of two samples can hold two events.                                     *)
(***************************************************************************)
\* NUM_PARTS (4 in the source), scaled to the bound
NUM_PARTS == MaxSegments

PipeTexts == {<<>>, <<"E", "D">>}

PipeInit ==
    /\ scanVariant = "find_and_extract"
    /\ keywords = <<KwED>>
    /\ pre_sec = 0
    /\ post_sec = 0
    /\ duration = 0
    /\ spc = "idle"
    /\ sec = 0
    /\ last_found = 0
    /\ found_times = <<>>
    /\ lastSample = NoSample
    /\ refEvents = <<>>
    /\ extracted_files = <<>>
    /\ extractCalls = <<>>
    /\ musicVariant = "pool"
    /\ numTracks \in 0..MaxPipeTracks
    /\ clipsToConvert = 0
    /\ MUSIC_POOL = <<>>
    /\ musicPicks = <<>>
    /\ callerPc = <<>>
    /\ mupc = "idle"
    /\ pipeVariant \in {"main", "yt"}
    /\ ppc = "start"
    /\ parts = 0
    /\ frameOk = TRUE
    /\ scanned = <<>>
    /\ clipsByPart = <<>>
    /\ convertCalls = <<>>
    /\ transcodeCalls = <<>>
    /\ failures = <<>>
    /\ status = "none"
    /\ exitCode = "none"

\* the process ends: a return reaches sys.exit(0), sys.exit(1) or an exception exit 1
Exit(code, msg) ==
    /\ ppc' = "exited"
    /\ exitCode' = code
    /\ status' = msg

\* an exception leaves main / main_pipeline: `except Exception` prints
\* "[FATAL ERROR]" and calls sys.exit(1)
Fatal(call) ==
    /\ failures' = Append(failures, call)
    /\ Exit("1", "FATAL")

\* `if not os.path.exists(video_path)`: "[ERROR] input.webm not found", sys.exit(1)
CheckInput(exists) ==
    /\ ppc = "start"
    /\ IF exists
       THEN ppc' = "split" /\ UNCHANGED <<status, exitCode>>
       ELSE Exit("1", "ERROR_NO_INPUT")
    /\ UNCHANGED <<pipeVariant, parts, frameOk, scanned, clipsByPart, convertCalls,
                   transcodeCalls, failures>>
    /\ UNCHANGED <<scanVars, mergeVars, musicVars, rerunVars, auxVars>>

\* get_video_duration inside split_video_into_parts: a failed ffprobe is caught and
\* gives None, and `if not duration: return []` hands main an empty list of parts
ProbeDuration(ok) ==
    /\ ppc = "split"
    /\ IF ok
       THEN ppc' = "splitting" /\ UNCHANGED failures
       ELSE ppc' = "scan" /\ failures' = Append(failures, "probe")
    /\ UNCHANGED <<pipeVariant, parts, frameOk, scanned, clipsByPart, convertCalls,
                   transcodeCalls, status, exitCode>>
    /\ UNCHANGED <<scanVars, mergeVars, musicVars, rerunVars, auxVars>>

\* one iteration of `for i in range(num_parts)`: subprocess.run(cmd, check=True)
SplitPart(ok) ==
    /\ ppc = "splitting"
    /\ IF ok
       THEN /\ parts' = parts + 1
            /\ ppc' = IF parts + 1 = NUM_PARTS THEN "scan" ELSE "splitting"
            /\ UNCHANGED <<failures, status, exitCode>>
       ELSE /\ Fatal("split")
            /\ UNCHANGED parts
    /\ UNCHANGED <<pipeVariant, frameOk, scanned, clipsByPart, convertCalls,
                   transcodeCalls>>
    /\ UNCHANGED <<scanVars, mergeVars, musicVars, rerunVars, auxVars>>

\* `clips = find_and_extract(part, out_dir)` is entered for the next part
CallFindAndExtract(d) ==
    /\ ppc = "scan"
    /\ Len(scanned) < parts
    /\ ppc' = "scanning"
    /\ spc' = "open"
    /\ duration' = d
    /\ sec' = 0
    /\ last_found' = 0
    /\ found_times' = <<>>
    /\ lastSample' = NoSample
    /\ refEvents' = <<>>
    /\ extracted_files' = <<>>
    /\ extractCalls' = <<>>
    /\ UNCHANGED <<scanVariant, keywords, pre_sec, post_sec>>
    /\ UNCHANGED <<pipeVariant, parts, frameOk, scanned, clipsByPart, convertCalls,
                   transcodeCalls, failures, status, exitCode>>
    /\ UNCHANGED <<mergeVars, musicVars, rerunVars, auxVars>>

\* the first cap.read() of the part
PipeOpenVideo(ret) ==
    /\ ppc = "scanning"
    /\ OpenVideo(ret)
    /\ frameOk' = ret
    /\ UNCHANGED <<pipeVariant, ppc, parts, scanned, clipsByPart, convertCalls,
                   transcodeCalls, failures, status, exitCode>>
    /\ UNCHANGED <<mergeVars, musicVars, rerunVars, auxVars>>

\* an exception left find_and_extract, with the test widened to a part whose first
\* frame did not decode
ScanRaisedOrNoFirstFrame == spc = "raised" \/ (spc = "returned" /\ ~frameOk)

\* an exception (a failed clip extraction) left find_and_extract
ScanRaised == spc = "raised"

\* the clips of a part put in front of those of the parts scanned before it
ExtendClipsAtFront(all, clips) == <<clips>> \o all

\* parts_clips.append(clips) / all_extracted.extend(clips): after what is there
ExtendClips(all, clips) == Append(all, clips)

\* find_and_extract returned: parts_clips.append(clips) / all_extracted.extend(clips)
FindAndExtractReturns ==
    /\ ppc = "scanning"
    /\ spc = "returned"
    /\ scanned' = Append(scanned, [frameOk |-> frameOk, events |-> Len(found_times),
                                   clips |-> Len(ReturnedClips)])
    /\ clipsByPart' = ExtendClips(clipsByPart,
                                  [k \in 1..Len(ReturnedClips) |->
                                      Clip(Len(scanned) + 1, ReturnedClips[k])])
    /\ ppc' = "scan"
    /\ UNCHANGED <<pipeVariant, parts, frameOk, convertCalls, transcodeCalls, failures,
                   status, exitCode>>
    /\ UNCHANGED <<scanVars, mergeVars, musicVars, rerunVars, auxVars>>

\* find_and_extract raised: nothing in main catches it
FindAndExtractRaises ==
    /\ ppc = "scanning"
    /\ ScanRaised
    /\ Fatal("extract")
    /\ UNCHANGED <<pipeVariant, parts, frameOk, scanned, clipsByPart, convertCalls,
                   transcodeCalls>>
    /\ UNCHANGED <<scanVars, mergeVars, musicVars, rerunVars, auxVars>>

\* the loop over the parts is over.  main_pipeline: `if not all_extracted:` prints
\* "[INFO] No ENEMY DOWNED events found." and returns.  Otherwise the merger is called:
\* merge_pairs_and_store_all(parts_clips, ...) / merge_all_globally(all_extracted, ...)
ScanLoopEnds ==
    /\ ppc = "scan"
    /\ Len(scanned) = parts
    /\ IF pipeVariant = "yt" /\ FlattenParts(clipsByPart) = <<>>
       THEN /\ Exit("0", "NO_EVENTS")
            /\ UNCHANGED mergeVars
       ELSE /\ ppc' = "merge"
            /\ mergeVariant' = IF pipeVariant = "main" THEN "pairs" ELSE "global"
            /\ parts_clips' = clipsByPart
            /\ mpc' = "start"
            /\ UNCHANGED <<part_idx, i, temp_merges, merged_all, batches, concatCalls,
                           copyCalls, fs>>
            /\ UNCHANGED <<status, exitCode>>
    /\ UNCHANGED <<pipeVariant, parts, frameOk, scanned, clipsByPart, convertCalls,
                   transcodeCalls, failures>>
    /\ UNCHANGED <<scanVars, musicVars, rerunVars, auxVars>>

\* the concat of a merge function raised (check=True): nothing catches it
MergeRaises ==
    /\ ppc = "merge"
    /\ mpc = "raised"
    /\ Fatal("concat")
    /\ UNCHANGED <<pipeVariant, parts, frameOk, scanned, clipsByPart, convertCalls,
                   transcodeCalls>>
    /\ UNCHANGED <<scanVars, mergeVars, musicVars, rerunVars, auxVars>>

\* the merger returned.  main prints "[DONE] All parts processed and merged." and
\* returns; main_pipeline goes on with init_music_pool(background_music_dir)
MergeReturns ==
    /\ ppc = "merge"
    /\ mpc = "done"
    /\ IF pipeVariant = "main"
       THEN /\ Exit("0", "DONE")
            /\ UNCHANGED MUSIC_POOL
       ELSE /\ ppc' = "convert"
            /\ MUSIC_POOL' \in Shuffles
            /\ UNCHANGED <<status, exitCode>>
    /\ UNCHANGED <<musicVariant, numTracks, clipsToConvert, musicPicks, callerPc, mupc>>
    /\ UNCHANGED <<pipeVariant, parts, frameOk, scanned, clipsByPart, convertCalls,
                   transcodeCalls, failures>>
    /\ UNCHANGED <<scanVars, mergeVars, rerunVars, auxVars>>

\* one iteration of `for file in merged_outputs: convert_to_vertical_webm(...)`: the
\* track is drawn first, then ffmpeg runs (.run() raises on a non-zero exit, which a
\* missing input file always gives)
ConvertToVertical(ok) ==
    /\ ppc = "convert"
    /\ Len(convertCalls) < Len(merged_all)
    /\ LET file == merged_all[Len(convertCalls) + 1]
           pick == PickMusic(MUSIC_POOL)
       IN  /\ ok => file \in DOMAIN fs
           /\ MUSIC_POOL' = pick.pool
           /\ musicPicks' = Append(musicPicks, pick.track)
           /\ convertCalls' = Append(convertCalls,
                                     [input |-> file, track |-> pick.track, ok |-> ok])
    /\ IF ok
       THEN UNCHANGED <<ppc, failures, status, exitCode>>
       ELSE Fatal("transform")
    /\ UNCHANGED <<musicVariant, numTracks, clipsToConvert, callerPc, mupc>>
    /\ UNCHANGED <<pipeVariant, parts, frameOk, scanned, clipsByPart, transcodeCalls>>
    /\ UNCHANGED <<scanVars, mergeVars, rerunVars, auxVars>>

\* the conversion loop is over: convert_webm_to_mp4(youtube_shorts_dir, reels_dir, ...)
ConvertLoopEnds ==
    /\ ppc = "convert"
    /\ Len(convertCalls) = Len(merged_all)
    /\ ppc' = "transcode"
    /\ UNCHANGED <<pipeVariant, parts, frameOk, scanned, clipsByPart, convertCalls,
                   transcodeCalls, failures, status, exitCode>>
    /\ UNCHANGED <<scanVars, mergeVars, musicVars, rerunVars, auxVars>>

\* one iteration of `for file in os.listdir(input_folder)` over the .webm files this
\* run wrote: subprocess.run([...], check=True)
TranscodeFile(ok) ==
    /\ ppc = "transcode"
    /\ Len(transcodeCalls) < Len(convertCalls)
    /\ transcodeCalls' = Append(transcodeCalls,
                                [input |-> convertCalls[Len(transcodeCalls) + 1].input,
                                 ok |-> ok])
    /\ IF ok
       THEN UNCHANGED <<ppc, failures, status, exitCode>>
       ELSE Fatal("transcode")
    /\ UNCHANGED <<pipeVariant, parts, frameOk, scanned, clipsByPart, convertCalls>>
    /\ UNCHANGED <<scanVars, mergeVars, musicVars, rerunVars, auxVars>>

\* every file is transcoded: cleanup, "[DONE] All outputs saved in:", return
TranscodeEnds ==
    /\ ppc = "transcode"
    /\ Len(transcodeCalls) = Len(convertCalls)
    /\ Exit("0", "DONE")
    /\ UNCHANGED <<pipeVariant, parts, frameOk, scanned, clipsByPart, convertCalls,
                   transcodeCalls, failures>>
    /\ UNCHANGED <<scanVars, mergeVars, musicVars, rerunVars, auxVars>>

NextPipe ==
    \/ \E exists \in BOOLEAN : CheckInput(exists)
    \/ \E ok \in BOOLEAN : ProbeDuration(ok)
    \/ \E ok \in BOOLEAN : SplitPart(ok)
    \/ \E d \in 0..MaxPartDuration : CallFindAndExtract(d)
    \/ \E ret \in BOOLEAN : PipeOpenVideo(ret)
    \/ ppc = "scanning" /\ SkipSample /\ UNCHANGED notScanVars
    \/ \E text \in PipeTexts : ppc = "scanning" /\ ScanSample(text) /\ UNCHANGED notScanVars
    \/ ppc = "scanning" /\ EndScan /\ UNCHANGED notScanVars
    \/ \E ok \in BOOLEAN : ppc = "scanning" /\ ExtractClip(ok) /\ UNCHANGED notScanVars
    \/ ppc = "scanning" /\ ReturnClips /\ UNCHANGED notScanVars
    \/ FindAndExtractReturns
    \/ FindAndExtractRaises
    \/ ScanLoopEnds
    \/ ppc = "merge" /\ StartMerge /\ UNCHANGED notMergeVars
    \/ ppc = "merge" /\ NextPart /\ UNCHANGED notMergeVars
    \/ \E o \in {"ok", "fail"} : ppc = "merge" /\ MergePair(o) /\ UNCHANGED notMergeVars
    \/ \E o \in {"ok", "fail", "clobbered"} :
          ppc = "merge" /\ MergeOdd(o) /\ UNCHANGED notMergeVars
    \/ \E o \in {"ok", "fail"} : ppc = "merge" /\ MergeSingle(o) /\ UNCHANGED notMergeVars
    \/ ppc = "merge" /\ EndPart /\ UNCHANGED notMergeVars
    \/ \E o \in {"ok", "fail"} : ppc = "merge" /\ MergeGroup(o) /\ UNCHANGED notMergeVars
    \/ ppc = "merge" /\ EndLoop /\ UNCHANGED notMergeVars
    \/ MergeRaises
    \/ MergeReturns
    \/ \E ok \in BOOLEAN : ConvertToVertical(ok)
    \/ ConvertLoopEnds
    \/ \E ok \in BOOLEAN : TranscodeFile(ok)
    \/ TranscodeEnds

InitPipe == PipeInit /\ MergeIdle /\ RerunIdle /\ AuxIdle

SpecPipe == InitPipe /\ [][NextPipe]_vars

(***************************************************************************)
(* Claims about the Event Detector and the Clip Exporter (SpecScan).       *)
(***************************************************************************)

\* C1: any two consecutive events of the event list of a segment lie strictly more
\* than the cooldown apart, in every detector variant and for every keyword list.
C1_CooldownSpacing ==
    \A k \in 1..(Len(found_times) - 1) :
        found_times[k + 1] - found_times[k] > pre_sec + post_sec

\* Two keywords are configured and the second event came as early as the cooldown allows.
C1_Witness ==
    /\ Len(keywords) = 2
    /\ Len(found_times) >= 2
    /\ found_times[2] - found_times[1] = pre_sec + post_sec + 1
    /\ lastSample.matched

\* C2: the event list of find_and_extract equals the output of the reference greedy
\* filter on the samples seen so far; in particular with cooldown 10 an event at t=1
\* is the only event up to t=12 (the match at t=11, exactly 10 s later, is rejected).
C2_GreedyFilter ==
    scanVariant = "find_and_extract" =>
        /\ found_times = refEvents
        /\ (pre_sec + post_sec = 10 /\ found_times # <<>> /\ found_times[1] = 1 /\ sec <= 12)
               => found_times = <<1>>

\* The scenario of the design: cooldown 10, event at t=1, the sample at t=11 matched a
\* keyword and was not emitted.
C2_Witness ==
    /\ scanVariant = "find_and_extract"
    /\ duration = ScenarioDuration
    /\ pre_sec + post_sec = 10
    /\ lastSample.t = 11
    /\ lastSample.matched
    /\ found_times = <<1>>

\* C8: every extraction request has start = max(0, t - preWindow), never negative, and
\* duration = preWindow + postWindow, whether or not the start was clamped.
C8_Window ==
    \A k \in 1..Len(extractCalls) :
        LET c == extractCalls[k]
        IN  /\ c.ss >= 0
            /\ c.ss = (IF c.event >= pre_sec THEN c.event - pre_sec ELSE 0)
            /\ c.t = pre_sec + post_sec

\* An event at t=2 with preWindow = postWindow = 5 was exported as start 0, duration 10.
C8_Witness ==
    /\ pre_sec = 5
    /\ post_sec = 5
    /\ \E k \in 1..Len(extractCalls) :
          /\ extractCalls[k].event = 2
          /\ extractCalls[k].ss = 0
          /\ extractCalls[k].t = 10

\* C9: when find_and_extract returns (every extraction succeeded), the clip list has
\* one entry per event, the k-th entry is clip number k, and clip k is the window of
\* the k-th event.
C9_OneClipPerEvent ==
    (scanVariant = "find_and_extract" /\ spc = "returned") =>
        /\ Len(extracted_files) = Len(found_times)
        /\ Len(extractCalls) = Len(found_times)
        /\ \A k \in 1..Len(found_times) :
              /\ extracted_files[k] = k
              /\ extractCalls[k].idx = k
              /\ extractCalls[k].ok
              /\ extractCalls[k].event = found_times[k]
              /\ extractCalls[k].ss = Max(0, found_times[k] - pre_sec)
              /\ extractCalls[k].t = pre_sec + post_sec

\* find_and_extract returned the clips of three events.
C9_Witness ==
    /\ scanVariant = "find_and_extract"
    /\ spc = "returned"
    /\ Len(found_times) = 3
    /\ extracted_files = <<1, 2, 3>>

\* C10 (as claimed): when the function has ended, the export of every event was
\* attempted, and the clip of every event whose extraction succeeded is returned.
C10_FailureIsolated ==
    (scanVariant = "find_and_extract" /\ spc \in {"returned", "raised"}) =>
        /\ Len(extractCalls) = Len(found_times)
        /\ \A k \in 1..Len(extractCalls) :
              extractCalls[k].ok => \E j \in 1..Len(ReturnedClips) :
                                       ReturnedClips[j] = extractCalls[k].idx

(***************************************************************************)
(* Claims about the Batch Merger (SpecMerge).                              *)
(***************************************************************************)
BatchesOfPart(p) == SelectSeq(batches, LAMBDA b : b.part = p)

Sizes(bs) == [k \in 1..Len(bs) |-> Len(bs[k].clips)]

RECURSIVE ClipsOf(_)
ClipsOf(bs) == IF bs = <<>> THEN <<>> ELSE Head(bs).clips \o ClipsOf(Tail(bs))

Outs(bs) == [k \in 1..Len(bs) |-> bs[k].out]

AllClips == FlattenParts(parts_clips)

\* the batch sizes of the rule: none for 0 clips, <<1>> for one, twos for an even
\* count, twos closed by a three for an odd count from 3 on
ExpectedSizes(n) ==
    IF n = 0 THEN <<>>
    ELSE IF n = 1 THEN <<1>>
    ELSE IF n % 2 = 0 THEN [k \in 1..(n \div 2) |-> 2]
    ELSE [k \in 1..(n \div 2) |-> IF k = n \div 2 THEN 3 ELSE 2]

ConcatCallsFor(out) == SelectSeq(concatCalls, LAMBDA c : c.out = out)

NoCallFailed ==
    /\ \A k \in 1..Len(concatCalls) : concatCalls[k].outcome # "fail"
    /\ \A k \in 1..Len(copyCalls) : copyCalls[k].outcome # "fail"

\* C3: merge_clips.py main and merge_pairs_and_store_all form, for a list of N clips,
\* no batch for N=0 (and raise nothing), one batch of 1 for N=1, N/2 batches of 2 for
\* even N, and floor(N/2)-1 batches of 2 followed by one batch of 3 for odd N >= 3.
C3_BatchSizes ==
    mergeVariant \in {"batch", "pairs"} =>
        /\ mpc = "done" =>
              \A p \in 1..Len(parts_clips) :
                  Sizes(BatchesOfPart(p)) = ExpectedSizes(Len(parts_clips[p]))
        /\ AllClips = <<>> => (mpc # "raised" /\ batches = <<>>)

\* merge_pairs_and_store_all finished a part of 7 clips with batches of 2, 2 and 3.
C3_Witness ==
    /\ mergeVariant = "pairs"
    /\ mpc = "done"
    /\ Len(parts_clips[1]) = 7
    /\ Sizes(BatchesOfPart(1)) = <<2, 2, 3>>

\* C4 (as claimed): after a run in which no external call failed, the batches hold the
\* input clips once each and in input order, and the output of every batch was
\* produced, is returned and holds the clips of its batch.
C4_Partition ==
    (mpc = "done" /\ NoCallFailed) =>
        /\ ClipsOf(batches) = AllClips
        /\ merged_all = Outs(batches)
        /\ \A k \in 1..Len(batches) :
              /\ batches[k].out \in DOMAIN fs
              /\ fs[batches[k].out] = batches[k].clips

\* C5 (as claimed): in global merge mode every batch has 2 or 3 clips, unless the
\* whole input is one clip.
C5_GlobalBatchSizes ==
    mergeVariant = "global" =>
        \A k \in 1..Len(batches) :
            \/ Len(batches[k].clips) \in {2, 3}
            \/ Len(AllClips) = 1

\* C6 (as claimed): an input of exactly one clip ends as one batch of size 1 whose
\* output is a copy of the clip, and the concat operation is never invoked.
C6_SingleClipCopied ==
    (Len(AllClips) = 1 /\ mpc = "done" /\ NoCallFailed) =>
        /\ Len(batches) = 1
        /\ batches[1].clips = AllClips
        /\ batches[1].out \in DOMAIN fs
        /\ fs[batches[1].out] = AllClips
        /\ concatCalls = <<>>

\* C7 (as claimed): concat is invoked exactly once for every batch of 2 or more clips.
C7_OncePerBatch ==
    \A k \in 1..Len(batches) :
        Len(batches[k].clips) >= 2 => Len(ConcatCallsFor(batches[k].out)) = 1

\* C7 (amended): concat is invoked exactly once for every batch of 2 clips; for the
\* closing batch of 3, once in merge_clips.py main and merge_all_globally, and twice in
\* merge_pairs_and_store_all: once for its first two clips and once more with that
\* output and the leftover clip as inputs.
C7_OncePerPair ==
    \A k \in 1..Len(batches) :
        LET b == batches[k]
            calls == ConcatCallsFor(b.out)
        IN  /\ Len(b.clips) = 2 =>
                  /\ Len(calls) = 1
                  /\ calls[1].inputs = b.clips
            /\ (Len(b.clips) = 3 /\ mergeVariant # "pairs") =>
                  /\ Len(calls) = 1
                  /\ calls[1].inputs = b.clips
            /\ (Len(b.clips) = 3 /\ mergeVariant = "pairs") =>
                  /\ Len(calls) = 2
                  /\ calls[1].inputs = SubSeq(b.clips, 1, 2)
                  /\ calls[2].inputs = <<b.out, b.clips[3]>>

\* merge_pairs_and_store_all finished 5 clips: the batch of 2 took one concat, the
\* closing batch of 3 took two.
C7_Witness ==
    /\ mergeVariant = "pairs"
    /\ mpc = "done"
    /\ Len(parts_clips[1]) = 5
    /\ Len(batches) >= 2
    /\ Len(ConcatCallsFor(batches[1].out)) = 1
    /\ Len(batches[2].clips) = 3
    /\ Len(ConcatCallsFor(batches[2].out)) = 2

(***************************************************************************)
(* Claims about the background music (SpecMusic, SpecMusicConc).           *)
(***************************************************************************)

\* C11: with a pool of K tracks, each of the first K draws of pick_music returns a
\* track, no two of them the same, and every later draw returns none.
C11_PoolDraws ==
    musicVariant = "pool" =>
        \A j \in 1..Len(musicPicks) :
            /\ j <= numTracks =>
                  /\ musicPicks[j] \in Tracks
                  /\ \A h \in 1..(j - 1) : musicPicks[h] # musicPicks[j]
            /\ j > numTracks => musicPicks[j] = NoTrack

\* A pool of 3 tracks was drawn 4 times: three tracks, then none.
C11_Witness ==
    /\ musicVariant = "pool"
    /\ numTracks = 3
    /\ Len(musicPicks) = 4
    /\ musicPicks[3] \in Tracks
    /\ musicPicks[4] = NoTrack

\* C12 (as claimed): with concurrent callers no draw fails on a pool another caller
\* emptied, and no track is handed to two callers.
C12_AtomicDraw ==
    /\ \A j \in 1..Len(musicPicks) : musicPicks[j] # PopFromEmptyList
    /\ \A h, j \in 1..Len(musicPicks) :
          (h # j /\ musicPicks[h] \in Tracks) => musicPicks[h] # musicPicks[j]

\* C13 (as claimed): in every pipeline variant no track is given to two clips of a
\* run, and a clip gets no track only once every track has been used.
C13_WithoutReplacement ==
    /\ \A h, j \in 1..Len(musicPicks) :
          (h # j /\ musicPicks[h] \in Tracks) => musicPicks[h] # musicPicks[j]
    /\ \A j \in 1..Len(musicPicks) :
          musicPicks[j] = NoTrack =>
              \A t \in Tracks : \E h \in 1..(j - 1) : musicPicks[h] = t

(***************************************************************************)
(* Further claims about the Event Detector (SpecScan).                     *)
(***************************************************************************)

\* C14: while no visited sample's text (empty texts included) contains a configured
\* keyword, the event list is empty and no clip extraction is attempted or returned.
C14_NoMatchNoEvents ==
    ~lastSample.seenMatch =>
        /\ found_times = <<>>
        /\ extractCalls = <<>>
        /\ extracted_files = <<>>

\* A segment of at least 3 seconds was scanned to its end without any matching
\* sample and the function returned.
C14_Witness ==
    /\ duration >= 3
    /\ lastSample.t = duration - 1
    /\ ~lastSample.seenMatch
    /\ spc = "returned"

StrictlyIncreasing(ft) == \A k \in 1..(Len(ft) - 1) : ft[k] < ft[k + 1]

\* C16: the sample clock only moves forward, every visited sample is later than the
\* one visited before it, an event is only ever appended at the end of the list, and
\* the event list is strictly increasing in timestamp.
C16_TimeOrdered ==
    /\ []StrictlyIncreasing(found_times)
    /\ [][/\ sec' >= sec
          /\ lastSample' # lastSample => lastSample'.t > lastSample.t
          /\ found_times' # found_times =>
                /\ Len(found_times') = Len(found_times) + 1
                /\ SubSeq(found_times', 1, Len(found_times)) = found_times
                /\ found_times'[Len(found_times')] = lastSample'.t]_vars

\* Three events were appended, the last one from the sample visited last.
C16_Witness ==
    /\ Len(found_times) = 3
    /\ found_times[3] = lastSample.t
    /\ lastSample.t >= 4

\* C15: a run of the detector on the same segment (same first frame, same samples)
\* with the same keywords and cooldown ends with the same event list as the run
\* before it.
C15_SameEventsOnRerun ==
    (run >= 2 /\ DetectorDone) => found_times = prevEvents

\* A second run has ended with the two events of the first run.
C15_Witness ==
    /\ run = 2
    /\ spc = "export"
    /\ Len(prevEvents) = 2
    /\ found_times = prevEvents

(***************************************************************************)
(* Claims about the whole run (SpecPipe).                                  *)
(***************************************************************************)

\* a swallowed copy failure of merge_clips_together is a failed external call too
AnyCallFailed ==
    \/ failures # <<>>
    \/ \E k \in 1..Len(copyCalls) : copyCalls[k].outcome = "fail"

\* C17: a part whose first frame cannot be decoded yields no event and no clip; when
\* its scan returns, the loop over the parts goes on with an empty clip list for it
\* and the run has not exited; and a run ends with exit code 1 only if the input was
\* missing or an external call failed, never because of an undecodable first frame.
C17_FirstFrameFailureNotFatal ==
    /\ [](\A k \in 1..Len(scanned) :
             ~scanned[k].frameOk => scanned[k].events = 0 /\ scanned[k].clips = 0)
    /\ [](exitCode = "1" => (status = "ERROR_NO_INPUT" \/ failures # <<>>))
    /\ [][(ppc = "scanning" /\ spc = "returned" /\ ~frameOk /\ ppc' # ppc) =>
             /\ ppc' = "scan"
             /\ exitCode' = "none"
             /\ clipsByPart' = Append(clipsByPart, <<>>)]_vars

\* The first frame of part 1 did not decode, part 2 was then scanned and gave a clip,
\* and the run completed with exit code 0.
C17_Witness ==
    /\ ppc = "exited"
    /\ exitCode = "0"
    /\ status = "DONE"
    /\ Len(scanned) = NUM_PARTS
    /\ ~scanned[1].frameOk
    /\ scanned[2].frameOk
    /\ scanned[2].clips >= 1

\* C18 (as claimed): a run whose duration probe failed ends in an error outcome, with
\* no segment scanned and nothing merged.
C18_ProbeFailureIsFatal ==
    (ppc = "exited" /\ InSeq("probe", failures)) =>
        /\ exitCode = "1"
        /\ scanned = <<>>
        /\ batches = <<>>

\* C19 (as claimed): the "no events found" outcome is not an error and is reached only
\* by runs that scanned every segment with no probe, segmentation or external call
\* failure; every run with such a failure ends with another status or exit code.
C19_NoEventsDistinguishable ==
    (ppc = "exited" /\ status = "NO_EVENTS") =>
        /\ exitCode = "0"
        /\ Len(scanned) = NUM_PARTS
        /\ ~AnyCallFailed

\* C20 (as claimed): after a failed concat, transform or transcode call of
\* main_pipeline the other items of the stage are still processed: at the end of a run
\* that reached the merger every extracted clip was in a merged batch, every merged
\* output was given to the transform and every transformed clip to the transcode.
C20_FailureAbortsOnlyItem ==
    (pipeVariant = "yt" /\ ppc = "exited" /\ mpc # "idle") =>
        /\ \A p \in 1..Len(parts_clips) : \A k \in 1..Len(parts_clips[p]) :
              \E b \in 1..Len(batches) : InSeq(parts_clips[p][k], batches[b].clips)
        /\ convertCalls # <<>> => Len(convertCalls) = Len(merged_all)
        /\ transcodeCalls # <<>> => Len(transcodeCalls) = Len(convertCalls)

\* C21: in main_pipeline the clip list handed to merge_all_globally is ordered by part
\* ascending and, within a part, by clip number (the event order): no clip of a later
\* part, and no later clip of the same part, precedes another.
C21_GlobalListInPartOrder ==
    (pipeVariant = "yt" /\ mpc # "idle") =>
        \A a, b \in 1..Len(ClipList) :
            a < b =>
                \/ ClipList[a].part < ClipList[b].part
                \/ ClipList[a].part = ClipList[b].part /\ ClipList[a].n < ClipList[b].n

\* The merger got a list with two clips of part 1 followed by a clip of part 2.
C21_Witness ==
    /\ pipeVariant = "yt"
    /\ mpc = "loop"
    /\ Len(ClipList) >= 3
    /\ ClipList[1].part = 1
    /\ ClipList[2].part = 1
    /\ ClipList[Len(ClipList)].part = 2

(***************************************************************************)
(* Claims about the Format Converter (SpecConv).                           *)
(***************************************************************************)

\* C22 (as claimed): after a conversion in which no transcode failed, every accepted
\* input file has exactly one transcode, and no two transcodes wrote the same
\* output path.
C22_OneToOne ==
    cvpc = "done" =>
        /\ \A f \in input_folder :
              Accepted(f) =>
                  Cardinality({k \in 1..Len(commands) : commands[k].input = f}) = 1
        /\ \A j, k \in 1..Len(commands) :
              j # k => commands[j].output # commands[k].output

(***************************************************************************)
(* Further claims about the scan of one segment (SpecScan).                *)
(***************************************************************************)

Min(S) == CHOOSE x \in S : \A y \in S : x <= y

\* C23: a sample appends at most one event, however many keywords occur in its text
\* and whatever the cooldown, and the event it appends is the one reported for the
\* first keyword of the list that occurs in the text.
C23_OneEventPerSample ==
    /\ [](/\ Len(lastSample.found) <= 1
          /\ lastSample.found # <<>> =>
                /\ lastSample.matching # {}
                /\ lastSample.found[1] = Min(lastSample.matching))
    /\ [][lastSample' # lastSample =>
             Len(found_times') = Len(found_times) + Len(lastSample'.found)]_vars

\* With a cooldown of 0 a sample in which both keywords of the list occur gave one
\* event, reported for the first keyword.
C23_Witness ==
    /\ pre_sec + post_sec = 0
    /\ lastSample.matching = {1, 2}
    /\ lastSample.found = <<1>>
    /\ Len(found_times) >= 2
    /\ found_times[Len(found_times)] = lastSample.t

(***************************************************************************)
(* Claims about the scan loop and its worker pool (SpecOcr).               *)
(***************************************************************************)

\* C24: when the frame of a sample does not decode, no recognition is requested, the
\* event list and last_found stay as they are, the scan goes on (no error) at the next
\* interval boundary, and the frame read after a failed one is that of the next
\* sample time (no retry).
C24_FailedDecodeSkipped ==
    /\ [][(lastRead' # lastRead /\ ~lastRead'.ret) =>
             /\ ocrTasks = {}
             /\ ocrTasks' = {}
             /\ found_times' = found_times
             /\ last_found' = last_found
             /\ lastSample' = lastSample
             /\ sec' = sec + OCR_INTERVAL
             /\ spc' = "scan"
             /\ opc' = "read"]_vars
    /\ [][(lastRead' # lastRead /\ ~lastRead.ret) =>
             lastRead'.t = lastRead.t + OCR_INTERVAL]_vars

\* After an event at second 0 the frame of second 1 did not decode; the scan stands at
\* second 2 with the event list as it was.
C24_Witness ==
    /\ lastRead.t = 1
    /\ ~lastRead.ret
    /\ found_times = <<0>>
    /\ lastSample.t = 0
    /\ sec = 2
    /\ spc = "scan"

\* C25: at most one recognition task is outstanding at any time, and a frame is read
\* only when none is: the result of the current sample was taken before.
C25_OneTaskOutstanding ==
    /\ [](Cardinality(ocrTasks) <= 1)
    /\ [][lastRead' # lastRead => ocrTasks = {}]_vars

\* The task of the sample at second 1 is running in a worker while the loop waits;
\* the result of second 0 was taken before.
C25_Witness ==
    /\ opc = "wait"
    /\ lastSample.t = 0
    /\ \E task \in ocrTasks : task.t = 1 /\ task.state = "running"

(***************************************************************************)
(* Further claims about the Batch Merger (SpecMerge).                      *)
(***************************************************************************)

\* the artifact exists on disk: a concat or copy wrote it
Produced(path) == \E q \in DOMAIN fs : q = path

\* C26 (as claimed): every path merge_all_globally appends to its outputs and returns
\* was written by a concat or copy that succeeded.
C26_HandedOverAfterSuccess ==
    mergeVariant = "global" =>
        /\ \A k \in 1..Len(temp_merges) : Produced(temp_merges[k])
        /\ \A k \in 1..Len(merged_all) : Produced(merged_all[k])

\* C28 (as claimed): no concat invocation of the Batch Merger has its output path
\* among its input paths.
C28_OutputNotAmongInputs ==
    \A k \in 1..Len(concatCalls) : ~InSeq(concatCalls[k].out, concatCalls[k].inputs)

(***************************************************************************)
(* Claims about merge operations running at the same time (SpecConc).      *)
(***************************************************************************)

\* C27 (as claimed): merge operations for different batches that run at the same time
\* do not interfere: every concat that ran read the clip list of its own batch, and no
\* operation failed because another one removed its list file.
C27_NoInterference ==
    \A op \in DOMAIN cmPc :
        /\ concatRead[op] \in {<<>>, cmBatch[op].clips}
        /\ cmPc[op] # "raised: no list file"

(***************************************************************************)
(* Claims about the first match of a segment (SpecLongScan).               *)
(***************************************************************************)

\* C29 (as claimed): in every detector variant and for every cooldown >= 0, as soon as
\* a visited sample's text contained the keyword the event list is not empty: the
\* first match is never suppressed by the initial value of last_found.
C29_FirstMatchEmitted ==
    lastSample.seenMatch => found_times # <<>>

(***************************************************************************)
(* Claims about the termination of the scan (SpecScanFair).                *)
(***************************************************************************)

====
